---- MODULE Spec2Model ----
(***************************************************************************)
(* A model of src/BPlusTree.py: the Node / LeafNode objects, the insertion *)
(* engine of BPlusTree (descent, LeafNode.add, the overflow loop with      *)
(* LeafNode.split / Node.split / _mergeUp) and the read-only operations    *)
(* retrieve, getLeftmostLeaf and getRightmostLeaf, which change no state   *)
(* and are operators over the heap.                                        *)
(*                                                                         *)
(* Objects live in `heap`, a function from object identities to records    *)
(* holding the object's attributes.  Python lists are 0-based, TLA+        *)
(* sequences 1-based: an index i of the source is i + 1 here.              *)
(***************************************************************************)
EXTENDS Integers, Sequences, FiniteSets, TLC

\* ---- bounds of the model -------------------------------------------------
MaxOrder == 4        \* orders 1 .. MaxOrder are offered to the constructor
MaxKey == 7          \* keys are 1 .. MaxKey
MaxVal == 2          \* values are 1 .. MaxVal
MaxDup == 1          \* insert calls per run that repeat a present key

\* insert is exercised on the documented domain of the order (spec 3, 6).
MinOrder == 3

None == 0

Orders == 1..MaxOrder
Keys == 1..MaxKey
Vals == 1..MaxVal

VARIABLES
    order,      \* BPlusTree.order (None before construction)
    root,       \* BPlusTree.root: an object identity (None before construction)
    heap,       \* the live Node / LeafNode objects
    inserted,   \* the insert calls made so far: key -> values, in call order
    call        \* the last call of a deletion routine, its arguments and outcome

vars == <<order, root, heap, inserted, call>>

\* ---- Python list helpers -------------------------------------------------
MinOf(a, b) == IF a < b THEN a ELSE b

\* lst[:n]
Take(lst, n) == SubSeq(lst, 1, MinOf(n, Len(lst)))

\* lst[n:]
Drop(lst, n) == SubSeq(lst, MinOf(n, Len(lst)) + 1, Len(lst))

\* lst.pop(i), the remaining list (i is 1-based)
Pop(lst, i) == Take(lst, i - 1) \o Drop(lst, i)

\* the set of elements of a list
Elems(lst) == {lst[i] : i \in 1..Len(lst)}

\* the first position at which a left-to-right scan of `keys` stops: the
\* first i with key < keys[i], key = keys[i] when stopAtEqual, or the last i.
ScanStop(keys, key, stopAtEqual) ==
    CHOOSE i \in 1..Len(keys) :
        /\ \/ key < keys[i]
           \/ stopAtEqual /\ key = keys[i]
           \/ i = Len(keys)
        /\ \A j \in 1..(i - 1) : ~(key < keys[j] \/ (stopAtEqual /\ key = keys[j]))

\* ---- Node, LeafNode ------------------------------------------------------
Node(o) ==
    [leaf |-> FALSE, order |-> o, parent |-> None, keys |-> <<>>,
     values |-> <<>>, prevLeaf |-> None, nextLeaf |-> None]

LeafNode(o) == [Node(o) EXCEPT !.leaf = TRUE]

isRoot(n) == n.parent = None

\* the identity given to the next object created on heap h
NewId(h) == CHOOSE i \in 1..(Cardinality(DOMAIN h) + 1) : i \notin DOMAIN h

\* heap h with object id (new or existing) set to record rec
Store(h, id, rec) == [i \in (DOMAIN h) \cup {id} |-> IF i = id THEN rec ELSE h[i]]

\* children that keep the parent they had
ReparentNone(h, children, p) == h

\* for child in children: child.parent = p
Reparent(h, children, p) ==
    [i \in DOMAIN h |-> IF i \in Elems(children) THEN [h[i] EXCEPT !.parent = p] ELSE h[i]]

\* a bucket that takes new values at its front
AddToBucketFront(bucket, value) == <<value>> \o bucket

\* self.values[i].append(value)
AddToBucket(bucket, value) == Append(bucket, value)

\* LeafNode.add without its last branch: a key above all keys of the leaf
\* is not stored
LeafAddNoAppend(n, key, value) ==
    IF n.keys = <<>>
    THEN [n EXCEPT !.keys = <<key>>, !.values = <<(<<value>>)>>]
    ELSE LET i == ScanStop(n.keys, key, TRUE) IN
         IF key = n.keys[i]
         THEN [n EXCEPT !.values[i] = AddToBucket(@, value)]
         ELSE IF key < n.keys[i]
         THEN [n EXCEPT !.keys = Take(@, i - 1) \o <<key>> \o Drop(@, i - 1),
                        !.values = Take(@, i - 1) \o <<(<<value>>)>> \o Drop(@, i - 1)]
         ELSE n

\* LeafNode.add: the leaf record after add(key, value)
LeafAdd(n, key, value) ==
    IF n.keys = <<>>
    THEN [n EXCEPT !.keys = <<key>>, !.values = <<(<<value>>)>>]
    ELSE LET i == ScanStop(n.keys, key, TRUE) IN
         IF key = n.keys[i]
         THEN [n EXCEPT !.values[i] = AddToBucket(@, value)]
         ELSE IF key < n.keys[i]
         THEN [n EXCEPT !.keys = Take(@, i - 1) \o <<key>> \o Drop(@, i - 1),
                        !.values = Take(@, i - 1) \o <<(<<value>>)>> \o Drop(@, i - 1)]
         ELSE [n EXCEPT !.keys = Append(@, key), !.values = Append(@, <<value>>)]

\* mid = int(self.order // 2) of LeafNode.split
LeafMid(o) == o \div 2

\* LeafNode.split that does not hand self.nextLeaf on to the right leaf
LeafSplitDropNext(h, self) ==
    LET top == NewId(h)
        right == NewId(Store(h, top, Node(h[self].order)))
        mid == LeafMid(h[self].order)
        rightKeys == Drop(h[self].keys, mid)
        rightRec == [LeafNode(h[self].order) EXCEPT
                        !.parent = top,
                        !.keys = rightKeys,
                        !.values = Drop(h[self].values, mid),
                        !.prevLeaf = self]
        topRec == [Node(h[self].order) EXCEPT
                        !.keys = <<rightKeys[1]>>,
                        !.values = <<self, right>>]
        selfRec == [h[self] EXCEPT
                        !.parent = top,
                        !.keys = Take(@, mid),
                        !.values = Take(@, mid),
                        !.nextLeaf = right]
    IN [heap |-> Store(Store(Store(h, top, topRec), right, rightRec), self, selfRec),
        node |-> top]

\* a top node keyed by the last key of the right leaf
TopKeysLast(rightKeys) == <<rightKeys[Len(rightKeys)]>>

\* top.keys = [right.keys[0]] of LeafNode.split
TopKeys(rightKeys) == <<rightKeys[1]>>

\* LeafNode.split: the heap after self.split() and the returned top node
LeafSplit(h, self) ==
    LET top == NewId(h)
        right == NewId(Store(h, top, Node(h[self].order)))
        mid == LeafMid(h[self].order)
        rightKeys == Drop(h[self].keys, mid)
        rightRec == [LeafNode(h[self].order) EXCEPT
                        !.parent = top,
                        !.keys = rightKeys,
                        !.values = Drop(h[self].values, mid),
                        !.prevLeaf = self,
                        !.nextLeaf = h[self].nextLeaf]
        topRec == [Node(h[self].order) EXCEPT
                        !.keys = TopKeys(rightKeys),
                        !.values = <<self, right>>]
        selfRec == [h[self] EXCEPT
                        !.parent = top,
                        !.keys = Take(@, mid),
                        !.values = Take(@, mid),
                        !.nextLeaf = right]
    IN [heap |-> Store(Store(Store(h, top, topRec), right, rightRec), self, selfRec),
        node |-> top]

\* a split point one too far to the right
NodeMidOff(o) == (o \div 2) + 1

\* mid = int(self.order // 2) of Node.split
NodeMid(o) == o \div 2

\* a split that leaves all keys in the node it splits
SplitKeysKept(keys, mid) == keys

\* self.keys = [self.keys[mid]] of Node.split
SplitKeys(keys, mid) == <<keys[mid + 1]>>

\* Node.split: the heap after self.split() and the returned node (self)
NodeSplit(h, self) ==
    LET left == NewId(h)
        right == NewId(Store(h, left, Node(h[self].order)))
        mid == NodeMid(h[self].order)
        leftRec == [Node(h[self].order) EXCEPT
                        !.parent = self,
                        !.keys = Take(h[self].keys, mid),
                        !.values = Take(h[self].values, mid + 1)]
        rightRec == [Node(h[self].order) EXCEPT
                        !.parent = self,
                        !.keys = Drop(h[self].keys, mid + 1),
                        !.values = Drop(h[self].values, mid + 1)]
        selfRec == [h[self] EXCEPT
                        !.values = <<left, right>>,
                        !.keys = SplitKeys(h[self].keys, mid)]
        h1 == Store(Store(Store(h, left, leftRec), right, rightRec), self, selfRec)
    IN [heap |-> Reparent(Reparent(h1, leftRec.values, left), rightRec.values, right),
        node |-> self]

\* node.split(), dispatched on the class of the object
Split(h, n) == IF h[n].leaf THEN LeafSplit(h, n) ELSE NodeSplit(h, n)

\* ---- BPlusTree -----------------------------------------------------------
\* _find comparing with <= : a key equal to a separator is sent left
FindLeq(n, key) ==
    IF n.keys = <<>>
    THEN [raised |-> TRUE, child |-> None, index |-> None]
    ELSE LET stop == {i \in 1..Len(n.keys) : key <= n.keys[i] \/ i = Len(n.keys)}
             i == CHOOSE a \in stop : \A b \in stop : a <= b
         IN IF key <= n.keys[i]
            THEN [raised |-> FALSE, child |-> n.values[i], index |-> i]
            ELSE [raised |-> FALSE, child |-> n.values[i + 1], index |-> i + 1]

\* BPlusTree._find: the (child, index) pair, or raised when the loop body
\* never runs and the caller's unpacking of None fails
Find(n, key) ==
    IF n.keys = <<>>
    THEN [raised |-> TRUE, child |-> None, index |-> None]
    ELSE LET i == ScanStop(n.keys, key, FALSE) IN
         IF key < n.keys[i]
         THEN [raised |-> FALSE, child |-> n.values[i], index |-> i]
         ELSE [raised |-> FALSE, child |-> n.values[i + 1], index |-> i + 1]

\* _mergeUp that hangs the split result below the parent instead of
\* splicing its key and children into the parent
MergeUpNested(h, parent, child, index) ==
    Store(Reparent(h, <<child>>, parent), parent, [h[parent] EXCEPT !.values[index] = child])

\* BPlusTree._mergeUp: the heap after _mergeUp(parent, child, index)
MergeUp(h, parent, child, index) ==
    LET popped == Pop(h[parent].values, index)
        pivot == h[child].keys[1]
        h1 == Reparent(h, h[child].values, parent)
        pkeys == h[parent].keys
        i == ScanStop(pkeys, pivot, FALSE)
        rec == IF pkeys = <<>>
               THEN [h1[parent] EXCEPT !.values = popped]
               ELSE IF pivot < pkeys[i]
               THEN [h1[parent] EXCEPT
                        !.keys = Take(pkeys, i - 1) \o <<pivot>> \o Drop(pkeys, i - 1),
                        !.values = Take(popped, i - 1) \o h[child].values \o Drop(popped, i - 1)]
               ELSE [h1[parent] EXCEPT
                        !.keys = pkeys \o <<pivot>>,
                        !.values = popped \o h[child].values]
    IN Store(h1, parent, rec)

\* the descent loop shared by insert and retrieve:
\* while not isinstance(node, LeafNode): node, index = self._find(node, key)
RECURSIVE Descend(_, _, _)
Descend(h, n, key) ==
    IF h[n].leaf THEN [raised |-> FALSE, node |-> n]
    ELSE LET f == Find(h[n], key) IN
         IF f.raised THEN [raised |-> TRUE, node |-> None]
         ELSE Descend(h, f.child, key)

\* an overflow test that lets a node hold one key more
IsOverflowLate(n) == Len(n.keys) = n.order + 1

\* len(node.keys) == node.order
IsOverflow(n) == Len(n.keys) = n.order

\* the overflow loop of insert: while len(node.keys) == node.order.
\* `steps` lists the nodes the loop has split, each with whether it was the
\* root; a loop that is still running after `fuel` more iterations does not
\* end (diverged).  An exception of _find leaves the loop with the objects
\* as they are.
RECURSIVE OverflowLoop(_, _, _, _, _)
OverflowLoop(h, r, n, steps, fuel) ==
    IF ~IsOverflow(h[n])
    THEN [heap |-> h, root |-> r, steps |-> steps, diverged |-> FALSE]
    ELSE IF fuel = 0
    THEN [heap |-> h, root |-> r, steps |-> steps, diverged |-> TRUE]
    ELSE IF ~isRoot(h[n])
    THEN LET parent == h[n].parent
             s == Split(h, n)
             f == Find(s.heap[parent], s.heap[s.node].keys[1])
             done == Append(steps, [node |-> n, wasRoot |-> FALSE])
         IN IF f.raised
            THEN [heap |-> s.heap, root |-> r, steps |-> done, diverged |-> FALSE]
            ELSE OverflowLoop(MergeUp(s.heap, parent, s.node, f.index), r, parent,
                              done, fuel - 1)
    ELSE LET s == Split(h, n) IN
         OverflowLoop(s.heap, s.node, s.node,
                      Append(steps, [node |-> n, wasRoot |-> TRUE]), fuel - 1)

\* the loop as insert enters it; a tree has fewer levels than objects
Overflow(h, r, n) == OverflowLoop(h, r, n, <<>>, Cardinality(DOMAIN h) + 1)

\* the objects still referenced from the root once a call has returned
RECURSIVE Referenced(_, _)
Referenced(h, seen) ==
    LET refs(i) == (IF h[i].leaf THEN {} ELSE Elems(h[i].values))
                       \cup {h[i].parent, h[i].prevLeaf, h[i].nextLeaf}
        more == ((UNION {refs(i) : i \in seen}) \ {None}) \ seen
    IN IF more = {} THEN seen ELSE Referenced(h, seen \cup more)

Collect(h, r) == [i \in Referenced(h, {r}) |-> h[i]]

\* BPlusTree.insert: heap and root after insert(key, value); an exception
\* raised by the descent leaves the tree as it was
InsertResult(h, r, key, value) ==
    LET d == Descend(h, r, key)
        h1 == Store(h, d.node, LeafAdd(h[d.node], key, value))
        o == Overflow(h1, r, d.node)
    IN IF d.raised THEN [heap |-> h, root |-> r, steps |-> <<>>, diverged |-> FALSE]
       ELSE [heap |-> Collect(o.heap, o.root), root |-> o.root,
             steps |-> o.steps, diverged |-> o.diverged]

\* BPlusTree.retrieve: the bucket of key, the absent signal, or an exception
Retrieve(h, r, key) ==
    LET d == Descend(h, r, key)
        hits == IF d.raised THEN {} ELSE {i \in 1..Len(h[d.node].keys) : h[d.node].keys[i] = key}
    IN IF d.raised THEN [raised |-> TRUE, absent |-> FALSE, bucket |-> <<>>]
       ELSE IF hits = {} THEN [raised |-> FALSE, absent |-> TRUE, bucket |-> <<>>]
       ELSE [raised |-> FALSE, absent |-> FALSE,
             bucket |-> h[d.node].values[CHOOSE i \in hits : \A j \in hits : i <= j]]

\* while not isinstance(node, LeafNode): node = node.values[0]
RECURSIVE LeftDescend(_, _)
LeftDescend(h, n) == IF h[n].leaf THEN n ELSE LeftDescend(h, h[n].values[1])

\* while not isinstance(node, LeafNode): node = node.values[-1]
RECURSIVE RightDescend(_, _)
RightDescend(h, n) == IF h[n].leaf THEN n ELSE RightDescend(h, h[n].values[Len(h[n].values)])

\* BPlusTree.getLeftmostLeaf: the returned object (self.root is always truthy)
GetLeftmostLeaf(h, r) == LeftDescend(h, r)

\* BPlusTree.getRightmostLeaf: the loop ends and the method falls off its
\* end without a return statement, so the call evaluates to None
GetRightmostLeaf(h, r) == LET node == RightDescend(h, r) IN None

\* lst.insert(0, x)
PushFront(lst, x) == <<x>> \o lst

\* BPlusTree._borrowLeft(node, sibling, parentIndex): the heap afterwards and
\* the exception raised, if any.  parentIndex counts children from 1 here,
\* so the source's keys[parentIndex - 1] is keys[parentIndex - 1] here too.
BorrowLeft(h, node, sibling, parentIndex) ==
    LET p == h[node].parent
        sk == h[sibling].keys
        sv == h[sibling].values
    IN IF h[node].leaf /\ sk = <<>> THEN [heap |-> h, raised |-> "IndexError"]
       ELSE IF h[node].leaf
       THEN LET key == sk[Len(sk)]
                data == sv[Len(sv)]
                h1 == Store(h, sibling, [h[sibling] EXCEPT
                                            !.keys = Take(sk, Len(sk) - 1),
                                            !.values = Take(sv, Len(sv) - 1)])
                h2 == Store(h1, node, [h1[node] EXCEPT
                                            !.keys = PushFront(@, key),
                                            !.values = PushFront(@, data)])
                \* keys[-1] is the last key
                at == IF parentIndex - 1 = 0 THEN Len(h2[p].keys) ELSE parentIndex - 1
            IN IF at \in 1..Len(h2[p].keys)
               THEN [heap |-> Store(h2, p, [h2[p] EXCEPT !.keys[at] = key]),
                     raised |-> "no"]
               ELSE [heap |-> h2, raised |-> "IndexError"]
       ELSE IF h[p].keys = <<>> THEN [heap |-> h, raised |-> "IndexError"]
       ELSE IF sk = <<>>
       THEN [heap |-> Store(h, p, [h[p] EXCEPT !.keys = Take(@, Len(@) - 1)]),
             raised |-> "IndexError"]
       ELSE LET pk == h[p].keys
                parent_key == pk[Len(pk)]
                sibling_key == sk[Len(sk)]
                data == sv[Len(sv)]
                h1 == Store(h, p, [h[p] EXCEPT
                                            !.keys = PushFront(Take(pk, Len(pk) - 1), sibling_key)])
                h2 == Store(h1, sibling, [h1[sibling] EXCEPT
                                            !.keys = Take(sk, Len(sk) - 1),
                                            !.values = Take(sv, Len(sv) - 1)])
                h3 == Reparent(h2, <<data>>, node)
            IN [heap |-> Store(h3, node, [h3[node] EXCEPT
                                            !.keys = PushFront(@, parent_key),
                                            !.values = PushFront(@, data)]),
                raised |-> "no"]

\* BPlusTree._borrowRight(node, sibling, parentIndex): the heap afterwards
\* and the exception raised, if any.  The source's keys[parentIndex] is
\* keys[parentIndex] here, parentIndex counting children from 1.
BorrowRight(h, node, sibling, parentIndex) ==
    LET p == h[node].parent
        sk == h[sibling].keys
        sv == h[sibling].values
    IN IF h[node].leaf /\ sk = <<>> THEN [heap |-> h, raised |-> "IndexError"]
       ELSE IF h[node].leaf
       THEN LET key == sk[1]
                data == sv[1]
                h1 == Store(h, sibling, [h[sibling] EXCEPT
                                            !.keys = Drop(sk, 1),
                                            !.values = Drop(sv, 1)])
                h2 == Store(h1, node, [h1[node] EXCEPT
                                            !.keys = Append(@, key),
                                            !.values = Append(@, data)])
            IN IF h2[sibling].keys # <<>> /\ parentIndex \in 1..Len(h2[p].keys)
               THEN [heap |-> Store(h2, p, [h2[p] EXCEPT
                                            !.keys[parentIndex] = h2[sibling].keys[1]]),
                     raised |-> "no"]
               ELSE [heap |-> h2, raised |-> "IndexError"]
       ELSE IF h[p].keys = <<>> THEN [heap |-> h, raised |-> "IndexError"]
       ELSE IF sk = <<>>
       THEN [heap |-> Store(h, p, [h[p] EXCEPT !.keys = Drop(@, 1)]),
             raised |-> "IndexError"]
       ELSE LET pk == h[p].keys
                parent_key == pk[1]
                sibling_key == sk[1]
                data == sv[1]
                h1 == Store(h, p, [h[p] EXCEPT !.keys = Append(Drop(pk, 1), sibling_key)])
                h2 == Store(h1, sibling, [h1[sibling] EXCEPT
                                            !.keys = Drop(sk, 1),
                                            !.values = Drop(sv, 1)])
                h3 == Reparent(h2, <<data>>, node)
            IN [heap |-> Store(h3, node, [h3[node] EXCEPT
                                            !.keys = Append(@, parent_key),
                                            !.values = Append(@, data)]),
                raised |-> "no"]

\* a merge of internal nodes that forgets the separator taken from the parent
MergedKeysNoSeparator(lkeys, parent_key, rkeys, leaves) == lkeys \o rkeys

\* the keys of l_node after _mergeOnDelete: l_node.keys.append(parent_key)
\* unless both nodes are leaves, then l_node.keys += r_node.keys
MergedKeys(lkeys, parent_key, rkeys, leaves) ==
    IF leaves THEN lkeys \o rkeys ELSE Append(lkeys, parent_key) \o rkeys

\* BPlusTree._mergeOnDelete(l_node, r_node): the heap afterwards and the
\* exception raised, if any
MergeOnDelete(h, l_node, r_node) ==
    LET parent == h[l_node].parent
        f == Find(h[parent], h[l_node].keys[1])
        index == f.index
        leaves == h[l_node].leaf /\ h[r_node].leaf
    IN IF h[l_node].keys = <<>> THEN [heap |-> h, raised |-> "IndexError"]
       ELSE IF f.raised THEN [heap |-> h, raised |-> "TypeError"]
       ELSE IF index > Len(h[parent].keys) THEN [heap |-> h, raised |-> "IndexError"]
       ELSE LET parent_key == h[parent].keys[index]
                popped == Pop(h[parent].values, index)
                h1 == Store(h, parent, [h[parent] EXCEPT
                                            !.keys = Pop(@, index),
                                            !.values = [popped EXCEPT ![index] = l_node]])
                h2 == IF leaves THEN h1 ELSE Reparent(h1, h[r_node].values, l_node)
            IN [heap |-> Store(h2, l_node, [h2[l_node] EXCEPT
                                  !.nextLeaf = IF leaves THEN h[r_node].nextLeaf ELSE @,
                                  !.keys = MergedKeys(@, parent_key, h[r_node].keys, leaves),
                                  !.values = @ \o h[r_node].values]),
                raised |-> "no"]

\* BPlusTree.getPrevSibling: the returned object or None; raised when _find
\* returns no pair
GetPrevSibling(h, n) ==
    IF isRoot(h[n]) \/ h[n].keys = <<>> THEN [raised |-> FALSE, node |-> None]
    ELSE LET f == Find(h[h[n].parent], h[n].keys[1]) IN
         IF f.raised THEN [raised |-> TRUE, node |-> None]
         ELSE IF f.index - 1 >= 1
         THEN [raised |-> FALSE, node |-> h[h[n].parent].values[f.index - 1]]
         ELSE [raised |-> FALSE, node |-> None]

\* BPlusTree.getNextSibling: the returned object or None; raised when _find
\* returns no pair
GetNextSibling(h, n) ==
    IF isRoot(h[n]) \/ h[n].keys = <<>> THEN [raised |-> FALSE, node |-> None]
    ELSE LET f == Find(h[h[n].parent], h[n].keys[1]) IN
         IF f.raised THEN [raised |-> TRUE, node |-> None]
         ELSE IF f.index + 1 <= Len(h[h[n].parent].values)
         THEN [raised |-> FALSE, node |-> h[h[n].parent].values[f.index + 1]]
         ELSE [raised |-> FALSE, node |-> None]

\* ---- the state machine ---------------------------------------------------
\* no deletion routine has been called
NoCall ==
    [op |-> "none", node |-> None, sibling |-> None, parentIndex |-> None,
     key |-> None, raised |-> "no"]

Init ==
    /\ order = None
    /\ root = None
    /\ heap = <<>>
    /\ inserted = [k \in Keys |-> <<>>]
    /\ call = NoCall

\* BPlusTree.__init__(order): no check of the order is made
New(o) ==
    /\ root = None
    /\ order' = o
    /\ root' = 1
    /\ heap' = Store(<<>>, 1, LeafNode(o))
    /\ UNCHANGED <<inserted, call>>

RECURSIVE SumLen(_, _)
SumLen(f, k) == IF k = 0 THEN 0 ELSE Len(f[k]) + SumLen(f, k - 1)

NumInserts == SumLen(inserted, MaxKey)
NumKeys == Cardinality({k \in Keys : inserted[k] # <<>>})

\* The code never inspects a value, so the j-th value inserted under a key
\* is drawn from 1 .. min(j, MaxVal): equal and different values both occur.
ValsFor(key) == 1..MinOf(Len(inserted[key]) + 1, MaxVal)

\* tree.insert(key, value)
Insert(key, value) ==
    /\ root # None
    /\ order >= MinOrder
    /\ inserted[key] # <<>> => NumInserts - NumKeys < MaxDup
    /\ \E res \in {InsertResult(heap, root, key, value)} :
         /\ heap' = res.heap
         /\ root' = res.root
    /\ inserted' = [inserted EXCEPT ![key] = Append(@, value)]
    /\ UNCHANGED <<order, call>>

Next ==
    \/ \E o \in Orders : New(o)
    \/ \E key \in Keys : \E value \in ValsFor(key) : Insert(key, value)

Spec == Init /\ [][Next]_vars

\* ---- observations of the tree --------------------------------------------
\* the objects owned by n: n and everything below it
RECURSIVE Subtree(_, _)
Subtree(h, n) ==
    IF h[n].leaf THEN {n}
    ELSE {n} \cup UNION {Subtree(h, c) : c \in Elems(h[n].values)}

TreeNodes == IF root = None THEN {} ELSE Subtree(heap, root)
TreeLeaves == {i \in TreeNodes : heap[i].leaf}
TreeInternals == {i \in TreeNodes : ~heap[i].leaf}

\* the keys stored in the leaves below n
SubtreeKeys(h, n) == UNION {Elems(h[l].keys) : l \in {i \in Subtree(h, n) : h[i].leaf}}

\* the distances from n (at distance d from the root) down to its leaves
RECURSIVE LeafDepths(_, _, _)
LeafDepths(h, n, d) ==
    IF h[n].leaf THEN {d}
    ELSE UNION {LeafDepths(h, c, d + 1) : c \in Elems(h[n].values)}

Depths == IF root = None THEN {} ELSE LeafDepths(heap, root, 0)

\* the leaves met by following nextLeaf from n, at most fuel of them
RECURSIVE Walk(_, _, _)
Walk(h, n, fuel) ==
    IF n = None \/ fuel = 0 THEN <<>>
    ELSE <<n>> \o Walk(h, h[n].nextLeaf, fuel - 1)

\* the walk of the leaf chain from getLeftmostLeaf()
LeafChain ==
    IF root = None THEN <<>>
    ELSE Walk(heap, GetLeftmostLeaf(heap, root), Cardinality(DOMAIN heap) + 1)

RECURSIVE KeysOf(_, _)
KeysOf(h, leaves) ==
    IF leaves = <<>> THEN <<>> ELSE h[Head(leaves)].keys \o KeysOf(h, Tail(leaves))

ChainKeys == KeysOf(heap, LeafChain)

StrictlyAscending(lst) == \A i \in 1..(Len(lst) - 1) : lst[i] < lst[i + 1]
NoRepeat(lst) == \A i, j \in 1..Len(lst) : i # j => lst[i] # lst[j]
InsertedKeys == {k \in Keys : inserted[k] # <<>>}
Constructed == root # None

\* the root was split as an internal node: the tree has height 3
TallTree == Constructed /\ Depths = {2}

\* an internal node below the root was split: with order 3 the root of a
\* tree of height 3 got a second key
DeepTree == Constructed /\ Depths = {2} /\ Len(heap[root].keys) >= 2

\* ---- the deletion routines ----------------------------------------------
\* the pairs (parent, i) such that children i and i + 1 of parent exist
AdjacentPairs ==
    {pi \in TreeInternals \X (1..MaxOrder) : pi[2] + 1 <= Len(heap[pi[1]].values)}

\* BPlusTree._borrowLeft(node, sibling, parentIndex) with node the child
\* after sibling and parentIndex the place of node in its parent
BorrowLeftCall(p, i) ==
    /\ call = NoCall
    /\ <<p, i>> \in AdjacentPairs
    /\ \E res \in {BorrowLeft(heap, heap[p].values[i + 1], heap[p].values[i], i + 1)} :
          /\ heap' = Collect(res.heap, root)
          /\ call' = [NoCall EXCEPT !.op = "borrowLeft", !.node = heap[p].values[i + 1],
                          !.sibling = heap[p].values[i], !.parentIndex = i + 1,
                          !.raised = res.raised]
    /\ UNCHANGED <<order, root, inserted>>

\* BPlusTree._borrowRight(node, sibling, parentIndex) with sibling the child
\* after node and parentIndex the place of node in its parent
BorrowRightCall(p, i) ==
    /\ call = NoCall
    /\ <<p, i>> \in AdjacentPairs
    /\ \E res \in {BorrowRight(heap, heap[p].values[i], heap[p].values[i + 1], i)} :
          /\ heap' = Collect(res.heap, root)
          /\ call' = [NoCall EXCEPT !.op = "borrowRight", !.node = heap[p].values[i],
                          !.sibling = heap[p].values[i + 1], !.parentIndex = i,
                          !.raised = res.raised]
    /\ UNCHANGED <<order, root, inserted>>

\* BPlusTree._mergeOnDelete(l_node, r_node) with r_node the child after l_node
MergeOnDeleteCall(p, i) ==
    /\ call = NoCall
    /\ <<p, i>> \in AdjacentPairs
    /\ \E res \in {MergeOnDelete(heap, heap[p].values[i], heap[p].values[i + 1])} :
          /\ heap' = Collect(res.heap, root)
          /\ call' = [NoCall EXCEPT !.op = "mergeOnDelete", !.node = heap[p].values[i],
                          !.sibling = heap[p].values[i + 1], !.parentIndex = i,
                          !.raised = res.raised]
    /\ UNCHANGED <<order, root, inserted>>

\* tree.delete(key): BPlusTree defines no delete, the attribute lookup fails
DeleteCall(key) ==
    /\ call = NoCall
    /\ root # None
    /\ call' = [NoCall EXCEPT !.op = "delete", !.key = key, !.raised = "AttributeError"]
    /\ UNCHANGED <<order, root, heap, inserted>>

\* a tree is built by inserts, then one deletion routine is called on it
NextDeletion ==
    \/ call = NoCall /\ Next
    \/ \E key \in Keys : DeleteCall(key)
    \/ \E p \in DOMAIN heap, i \in 1..MaxOrder : BorrowLeftCall(p, i)
    \/ \E p \in DOMAIN heap, i \in 1..MaxOrder : BorrowRightCall(p, i)
    \/ \E p \in DOMAIN heap, i \in 1..MaxOrder : MergeOnDeleteCall(p, i)

SpecDeletion == Init /\ [][NextDeletion]_vars

\* a tree is built by inserts, then two adjacent children are merged
NextMerge ==
    \/ call = NoCall /\ Next
    \/ \E p \in DOMAIN heap, i \in 1..MaxOrder : MergeOnDeleteCall(p, i)

SpecMerge == Init /\ [][NextMerge]_vars

\* ---- the claims ----------------------------------------------------------
\* C1: retrieve(k) of an inserted key k returns a bucket holding exactly the
\* values inserted under k, in the order of the insert calls.
C1_RetrieveInsertedBucket ==
    Constructed =>
        \A k \in InsertedKeys :
            Retrieve(heap, root, k) = [raised |-> FALSE, absent |-> FALSE, bucket |-> inserted[k]]

\* a key inserted twice with different values is retrieved from a tree
\* whose leaves and internal nodes have split
C1_Witness ==
    /\ DeepTree
    /\ \E k \in InsertedKeys :
          /\ inserted[k] = <<1, 2>>
          /\ Retrieve(heap, root, k).bucket = <<1, 2>>

\* C2: retrieve(k) never raises and returns the absent signal exactly when
\* k was never inserted.
C2_RetrieveAbsentIffNeverInserted ==
    Constructed =>
        \A k \in Keys :
            /\ ~Retrieve(heap, root, k).raised
            /\ Retrieve(heap, root, k).absent <=> inserted[k] = <<>>

\* a key never inserted is looked up through two levels of internal nodes
C2_Witness ==
    /\ TallTree
    /\ \E k \in Keys \ InsertedKeys : Retrieve(heap, root, k).absent
    /\ \E k \in InsertedKeys : ~Retrieve(heap, root, k).absent

\* C3: the walk along nextLeaf from getLeftmostLeaf() visits every leaf of
\* the tree exactly once and yields exactly the inserted keys, strictly
\* ascending.
C3_LeafChainAscending ==
    Constructed =>
        /\ NoRepeat(LeafChain)
        /\ Elems(LeafChain) = TreeLeaves
        /\ StrictlyAscending(ChainKeys)
        /\ Elems(ChainKeys) = InsertedKeys

\* a chain of at least four leaves, one of them split off in the middle
C3_Witness ==
    /\ DeepTree
    /\ Len(LeafChain) >= 4
    /\ Len(ChainKeys) = MaxKey

\* C4: after every insert all leaves are at the same distance from the root.
C4_LeavesSameDepth == Constructed => Cardinality(Depths) = 1

\* the tree grew to height 3 and an internal node below the root was split
C4_Witness == DeepTree /\ Cardinality(TreeLeaves) >= 5

\* C5: a leaf holds at most order - 1 keys, and a leaf other than the root
\* at least floor(order / 2) - 1.
C5_LeafOccupancy ==
    \A l \in TreeLeaves :
        /\ Len(heap[l].keys) <= order - 1
        /\ l # root => Len(heap[l].keys) >= (order \div 2) - 1

\* leaves produced by splits, one full and one holding what a split leaves
C5_Witness ==
    /\ order = 4
    /\ \E l \in TreeLeaves : l # root /\ Len(heap[l].keys) = order - 1
    /\ \E l \in TreeLeaves : l # root /\ Len(heap[l].keys) = order \div 2

\* C6: an internal node has one more child than keys, at most order
\* children, and unless it is the root at least ceil(order / 2) children.
C6_InternalOccupancy ==
    \A n \in TreeInternals :
        /\ Len(heap[n].values) = Len(heap[n].keys) + 1
        /\ Len(heap[n].values) <= order
        /\ n # root => Len(heap[n].values) >= (order + 1) \div 2

\* internal nodes produced by Node.split below a root with three children
C6_Witness ==
    /\ DeepTree
    /\ \E n \in TreeInternals : n # root /\ Len(heap[n].values) = (order + 1) \div 2
    /\ Len(heap[root].values) = 3

\* C7: the keys of an internal node are strictly increasing and every key
\* stored below children[i] is < keys[i] and >= keys[i - 1].
C7_ChildrenRouted ==
    \A n \in TreeInternals :
        /\ StrictlyAscending(heap[n].keys)
        /\ \A i \in 1..Len(heap[n].values) :
              \A k \in SubtreeKeys(heap, heap[n].values[i]) :
                  /\ i <= Len(heap[n].keys) => k < heap[n].keys[i]
                  /\ i > 1 => k >= heap[n].keys[i - 1]

\* a root with two keys over internal nodes, all keys of the model stored
C7_Witness ==
    /\ DeepTree
    /\ SubtreeKeys(heap, root) = Keys
    /\ \E n \in TreeInternals : n # root /\ heap[n].keys # <<>>

\* C8: the leaf chain is doubly linked: the leaf after L has L as its
\* prevLeaf, and the first leaf has no prevLeaf.
C8_ChainDoublyLinked ==
    Constructed =>
        /\ \A l \in TreeLeaves :
              heap[l].nextLeaf # None => heap[heap[l].nextLeaf].prevLeaf = l
        /\ heap[GetLeftmostLeaf(heap, root)].prevLeaf = None

\* C9: no tree is constructed with an order of 2 or less, and a tree
\* constructed with order >= 3 starts as one empty leaf.
C9_InvalidOrderRejected ==
    Constructed =>
        /\ order >= MinOrder
        /\ NumInserts = 0 => heap = Store(<<>>, root, LeafNode(order))

\* C10: getRightmostLeaf() returns the last leaf of the chain, as
\* getLeftmostLeaf() returns the first.
C10_RightmostIsLastLeaf ==
    Constructed =>
        /\ GetLeftmostLeaf(heap, root) = LeafChain[1]
        /\ GetRightmostLeaf(heap, root) = LeafChain[Len(LeafChain)]

\* ---- insert, step by step ------------------------------------------------
\* the nodes the descent for key passes, the root first
RECURSIVE DescentPath(_, _, _)
DescentPath(h, n, key) ==
    IF h[n].leaf THEN <<n>>
    ELSE <<n>> \o DescentPath(h, Find(h[n], key).child, key)

\* the distance from the root to the deepest leaf
Height(h, r) ==
    LET ds == LeafDepths(h, r, 0) IN CHOOSE d \in ds : \A e \in ds : e <= d

\* the value of the insert call that a step with inserted'[k] # inserted[k] made
LastOf(lst) == lst[Len(lst)]

\* the position of child c among the children of p
ChildIndex(h, p, c) == CHOOSE i \in 1..Len(h[p].values) : h[p].values[i] = c

\* the node of the tree that owns n
OwnerOf(n) == CHOOSE p \in TreeInternals : n \in Elems(heap[p].values)

\* insert(key, value) on tree (h, r) ends, having split the nodes of the
\* descent path from the leaf upward, one per level, the root last if at all
InsertTerminates(h, r, key, value) ==
    LET res == InsertResult(h, r, key, value)
        path == DescentPath(h, r, key)
        st == res.steps
    IN /\ ~res.diverged
       /\ Len(st) <= Len(path)
       /\ \A i \in 1..Len(st) :
             /\ st[i].node = path[Len(path) - i + 1]
             /\ st[i].wasRoot <=> st[i].node = r
             /\ st[i].wasRoot =>
                   /\ i = Len(st)
                   /\ Len(res.heap[res.root].keys) = 1
                   /\ ~IsOverflow(res.heap[res.root])

\* C12: insert terminates: the overflow loop splits at most one node per
\* level, moving strictly upward, and ends right after a split of the root,
\* whose single key is not `order` keys.
C12_InsertTerminates ==
    [][\A k \in Keys :
          inserted'[k] # inserted[k] =>
              InsertTerminates(heap, root, k, LastOf(inserted'[k]))]_vars

\* the insert that made the tree three levels high: with order 3 and five
\* keys it has just split a leaf and then the root
C12_Witness == order = 3 /\ TallTree /\ NumInserts = 5

\* the effect of insert(key, value) on the height and the root
HeightStep(h, r, key, value, h2, r2) ==
    LET res == InsertResult(h, r, key, value)
        rootSplit == \E i \in 1..Len(res.steps) : res.steps[i].wasRoot
    IN IF rootSplit
       THEN /\ Height(h2, r2) = Height(h, r) + 1
            /\ ~h2[r2].leaf
            /\ Len(h2[r2].keys) = 1
            /\ Len(h2[r2].values) = 2
            /\ h2[r2].parent = None
       ELSE Height(h2, r2) = Height(h, r)

\* C13: the height grows by one exactly in an insert that splits the root,
\* which leaves an internal root with one key, two children and no parent;
\* with order 3 the third distinct key makes the root such a node.
C13_HeightGrowsOnRootSplit ==
    /\ [][\A k \in Keys :
             inserted'[k] # inserted[k] =>
                 HeightStep(heap, root, k, LastOf(inserted'[k]), heap', root')]_vars
    /\ [](order = 3 /\ NumKeys = 3 => ~heap[root].leaf /\ Len(heap[root].keys) = 1)

\* three distinct keys in a tree of order 3: the root is the top of a split
C13_Witness ==
    /\ order = 3
    /\ NumKeys = 3
    /\ ~heap[root].leaf
    /\ Len(heap[root].values) = 2

\* insert(key, value) of a present key: value goes to the end of key's
\* bucket and nothing else changes
OnlyAppends(h, r, key, value, h2, r2) ==
    /\ r2 = r
    /\ DOMAIN h2 = DOMAIN h
    /\ InsertResult(h, r, key, value).steps = <<>>
    /\ \A i \in DOMAIN h :
          IF h[i].leaf /\ key \in Elems(h[i].keys)
          THEN LET pos == CHOOSE j \in 1..Len(h[i].keys) : h[i].keys[j] = key
               IN h2[i] = [h[i] EXCEPT !.values[pos] = Append(@, value)]
          ELSE h2[i] = h[i]

\* C14: an insert of a key that is present only appends the value to the
\* key's bucket: no split, no new node, keys, shape, root, chain and the
\* other buckets unchanged.
C14_RepeatedKeyOnlyAppends ==
    [][\A k \in Keys :
          (inserted[k] # <<>> /\ inserted'[k] # inserted[k]) =>
              OnlyAppends(heap, root, k, LastOf(inserted'[k]), heap', root')]_vars

\* a key was inserted a second time into a tree three levels high
C14_Witness ==
    /\ TallTree
    /\ \E k \in Keys : Len(inserted[k]) = 2 /\ Retrieve(heap, root, k).bucket = inserted[k]

\* C15: every child of an internal node has that node as its parent, and
\* the root is the only node of the tree without a parent.
C15_ParentsAgree ==
    Constructed =>
        /\ \A n \in TreeInternals : \A c \in Elems(heap[n].values) : heap[c].parent = n
        /\ \A n \in TreeNodes : heap[n].parent = None <=> n = root

\* children reparented by Node.split and by _mergeUp below a root with
\* three children
C15_Witness ==
    /\ DeepTree
    /\ \A n \in TreeNodes \ {root} : heap[n].parent = OwnerOf(n)
    /\ \E n \in TreeInternals : n # root

\* C20: getPrevSibling and getNextSibling return the children next to the
\* node in its parent, None at the ends and for the root.
C20_SiblingLookupExact ==
    Constructed =>
        \A n \in TreeNodes :
            IF n = root
            THEN /\ GetPrevSibling(heap, n) = [raised |-> FALSE, node |-> None]
                 /\ GetNextSibling(heap, n) = [raised |-> FALSE, node |-> None]
            ELSE LET p == OwnerOf(n)
                     i == ChildIndex(heap, p, n)
                 IN /\ GetPrevSibling(heap, n) =
                          [raised |-> FALSE,
                           node |-> IF i = 1 THEN None ELSE heap[p].values[i - 1]]
                    /\ GetNextSibling(heap, n) =
                          [raised |-> FALSE,
                           node |-> IF i = Len(heap[p].values) THEN None
                                    ELSE heap[p].values[i + 1]]

\* an internal node with a sibling on both sides, over leaves that are the
\* first and the last child of their parents
C20_Witness ==
    /\ DeepTree
    /\ \E n \in TreeInternals :
          GetPrevSibling(heap, n).node # None /\ GetNextSibling(heap, n).node # None
    /\ \E n \in TreeLeaves :
          GetPrevSibling(heap, n).node = None /\ GetNextSibling(heap, n).node # None
    /\ \E n \in TreeLeaves :
          GetPrevSibling(heap, n).node # None /\ GetNextSibling(heap, n).node = None

\* ---- the deletion routines, call by call ---------------------------------
\* a step that makes the call op on a tree built by inserts
Calls(op) == call = NoCall /\ call'.op = op

\* C11: the tree offers delete(key): deleting a present key removes its
\* bucket, so that retrieve(key) is absent afterwards and every other key is
\* retrieved as before; deleting an absent key fails with KeyNotFound and
\* leaves the tree unchanged.
C11_DeleteRemovesBucket ==
    [][Calls("delete") =>
          IF inserted[call'.key] # <<>>
          THEN /\ call'.raised = "no"
               /\ Retrieve(heap', root', call'.key).absent
               /\ \A k \in Keys \ {call'.key} :
                     Retrieve(heap', root', k) = Retrieve(heap, root, k)
          ELSE /\ call'.raised = "KeyNotFound"
               /\ heap' = heap
               /\ root' = root]_vars

\* the keys of n are strictly increasing and every key stored below
\* children[i] of n is < keys[i] and >= keys[i - 1]
RoutedAt(h, n) ==
    /\ StrictlyAscending(h[n].keys)
    /\ \A i \in 1..Len(h[n].values) :
          \A k \in SubtreeKeys(h, h[n].values[i]) :
              /\ i <= Len(h[n].keys) => k < h[n].keys[i]
              /\ i > 1 => k >= h[n].keys[i - 1]

\* the rotation through the separator between children i - 1 and i of the
\* parent, from the left sibling (child i - 1) into node (child i)
RotatedFromLeft(h, hn, node, sibling, i) ==
    LET p == h[node].parent
        sk == h[sibling].keys
        sv == h[sibling].values
        moved == sv[Len(sv)]
    IN /\ hn[node].keys = <<h[p].keys[i - 1]>> \o h[node].keys
       /\ hn[p].keys = [h[p].keys EXCEPT ![i - 1] = sk[Len(sk)]]
       /\ hn[sibling].keys = Take(sk, Len(sk) - 1)
       /\ hn[node].values = <<moved>> \o h[node].values
       /\ hn[sibling].values = Take(sv, Len(sv) - 1)
       /\ hn[moved].parent = node

\* the rotation through the separator between children i and i + 1 of the
\* parent, from the right sibling (child i + 1) into node (child i)
RotatedFromRight(h, hn, node, sibling, i) ==
    LET p == h[node].parent
        sk == h[sibling].keys
        sv == h[sibling].values
        moved == sv[1]
    IN /\ hn[node].keys = Append(h[node].keys, h[p].keys[i])
       /\ hn[p].keys = [h[p].keys EXCEPT ![i] = sk[1]]
       /\ hn[sibling].keys = Drop(sk, 1)
       /\ hn[node].values = Append(h[node].values, moved)
       /\ hn[sibling].values = Drop(sv, 1)
       /\ hn[moved].parent = node

\* C16: _borrowLeft / _borrowRight on an internal node and its adjacent
\* sibling moves the parent separator lying between the two down into the
\* node, puts the sibling's near-end key in that separator's place, moves the
\* sibling's near-end child to the node and reparents it; afterwards the
\* parent's keys are strictly increasing and the children of the parent, the
\* node and the sibling lie within the ranges of their separators. This for a
\* parent with any number of keys.
C16_InternalBorrowKeepsOrder ==
    [][(Calls("borrowLeft") \/ Calls("borrowRight")) /\ ~heap[call'.node].leaf =>
          /\ call'.raised = "no"
          /\ IF call'.op = "borrowLeft"
             THEN RotatedFromLeft(heap, heap', call'.node, call'.sibling, call'.parentIndex)
             ELSE RotatedFromRight(heap, heap', call'.node, call'.sibling, call'.parentIndex)
          /\ RoutedAt(heap', heap[call'.node].parent)
          /\ RoutedAt(heap', call'.node)
          /\ RoutedAt(heap', call'.sibling)]_vars

\* one key and its bucket go from the end of the left leaf (child i - 1) to
\* the front of node (child i); the separator between them follows node
LeafTakenFromLeft(h, hn, node, sibling, i) ==
    LET p == h[node].parent
        sk == h[sibling].keys
        sv == h[sibling].values
    IN /\ hn[node].keys = <<sk[Len(sk)]>> \o h[node].keys
       /\ hn[node].values = <<sv[Len(sv)]>> \o h[node].values
       /\ hn[sibling].keys = Take(sk, Len(sk) - 1)
       /\ hn[sibling].values = Take(sv, Len(sv) - 1)
       /\ hn[p].keys = [h[p].keys EXCEPT ![i - 1] = hn[node].keys[1]]

\* one key and its bucket go from the front of the right leaf (child i + 1)
\* to the end of node (child i); the separator between them follows the
\* right leaf
LeafTakenFromRight(h, hn, node, sibling, i) ==
    LET p == h[node].parent
        sk == h[sibling].keys
        sv == h[sibling].values
    IN /\ hn[node].keys = Append(h[node].keys, sk[1])
       /\ hn[node].values = Append(h[node].values, sv[1])
       /\ hn[sibling].keys = Drop(sk, 1)
       /\ hn[sibling].values = Drop(sv, 1)
       /\ hn[sibling].keys # <<>>
       /\ hn[p].keys = [h[p].keys EXCEPT ![i] = hn[sibling].keys[1]]

\* C17: for a leaf node, an adjacent leaf sibling under the same parent that
\* holds more than floor(order / 2) - 1 keys, and parentIndex the child index
\* of node, _borrowLeft / _borrowRight completes without error, moves exactly
\* one key with its bucket from the sibling's near end to node's adjacent
\* end, and leaves the separator between the two leaves equal to the first
\* key of the right-hand leaf, all other parent keys unchanged.
C17_LeafBorrow ==
    [][/\ Calls("borrowLeft") \/ Calls("borrowRight")
       /\ heap[call'.node].leaf
       /\ Len(heap[call'.sibling].keys) > (order \div 2) - 1
       =>
          /\ call'.raised = "no"
          /\ IF call'.op = "borrowLeft"
             THEN LeafTakenFromLeft(heap, heap', call'.node, call'.sibling, call'.parentIndex)
             ELSE LeafTakenFromRight(heap, heap', call'.node, call'.sibling, call'.parentIndex)]_vars

\* C18: after _mergeOnDelete(left, right) on two adjacent leaves,
\* left.nextLeaf is the former right.nextLeaf, that leaf (when there is one)
\* has left as its prevLeaf, and no leaf points at the removed right leaf.
C18_MergeKeepsChain ==
    [][Calls("mergeOnDelete") /\ heap[call'.node].leaf =>
          LET left == call'.node
              right == call'.sibling
              after == heap[right].nextLeaf
          IN /\ heap'[left].nextLeaf = after
             /\ after # None => heap'[after].prevLeaf = left
             /\ \A n \in DOMAIN heap' :
                   n # right /\ heap'[n].leaf =>
                       heap'[n].prevLeaf # right /\ heap'[n].nextLeaf # right]_vars

\* the merge of child i + 1 of the parent into child i
Merged(h, hn, l_node, r_node) ==
    LET p == h[l_node].parent
        i == ChildIndex(h, p, l_node)
        sep == h[p].keys[i]
    IN /\ hn[p].keys = Pop(h[p].keys, i)
       /\ hn[p].values = Pop(h[p].values, i + 1)
       /\ hn[p].values[i] = l_node
       /\ r_node \notin Elems(hn[p].values)
       /\ hn[l_node].keys = IF h[l_node].leaf THEN h[l_node].keys \o h[r_node].keys
                            ELSE h[l_node].keys \o <<sep>> \o h[r_node].keys
       /\ hn[l_node].values = h[l_node].values \o h[r_node].values
       /\ ~h[l_node].leaf => \A c \in Elems(h[r_node].values) : hn[c].parent = l_node
       /\ StrictlyAscending(hn[p].keys)
       /\ Len(hn[p].values) = Len(hn[p].keys) + 1
       /\ StrictlyAscending(hn[l_node].keys)
       /\ ~h[l_node].leaf => Len(hn[l_node].values) = Len(hn[l_node].keys) + 1

\* C19: _mergeOnDelete(left, right) on two adjacent non-empty children of one
\* parent removes from the parent exactly the separator between them and the
\* child slot of right; left then holds its keys, the separator (internal
\* nodes only) and right's keys, with right's children appended and
\* reparented; parent and left keep strictly increasing keys and one more
\* child than keys.
C19_MergeRemovesSeparator ==
    [][/\ Calls("mergeOnDelete")
       /\ heap[call'.node].keys # <<>>
       /\ heap[call'.sibling].keys # <<>>
       =>
          /\ call'.raised = "no"
          /\ Merged(heap, heap', call'.node, call'.sibling)]_vars

\* two internal nodes were merged under a parent that keeps another
\* separator, and the merged node holds the separator between its halves
C19_Witness ==
    /\ call.op = "mergeOnDelete"
    /\ call.raised = "no"
    /\ ~heap[call.node].leaf
    /\ Len(heap[call.node].keys) >= 3
    /\ heap[heap[call.node].parent].keys # <<>>

\* ---- separators ----------------------------------------------------------
\* C21: after any sequence of inserts every key of an internal node is the
\* smallest key stored below the child to its right: each separator is also
\* a leaf key and none is stale.
C21_SeparatorIsSmallestRightKey ==
    \A n \in TreeInternals :
        \A i \in 1..Len(heap[n].keys) :
            LET below == SubtreeKeys(heap, heap[n].values[i + 1])
            IN /\ heap[n].keys[i] \in below
               /\ \A k \in below : heap[n].keys[i] <= k

\* a root with two separators whose smallest right keys lie two levels
\* down, in leaves that hold a second key, one of them under two values
C21_Witness ==
    /\ DeepTree
    /\ \A i \in 1..Len(heap[root].keys) :
          heap[root].keys[i] \in SubtreeKeys(heap, heap[root].values[i + 1])
    /\ \E l \in TreeLeaves : Len(heap[l].keys) >= 2
    /\ \E k \in InsertedKeys : Len(inserted[k]) = 2
====
